---- MODULE Spec2Model ----
(***************************************************************************)
(* A model of varmap/record.py: the Pos type and parse_pos, normalize_reg, *)
(* the region annotations (RegAnno, RegIntergenicAnno, RegSpanAnno), the   *)
(* Record type with set_splice / set_csqn_byreg / formats, and the         *)
(* record-set functions format_records and wrap_exception.                 *)
(*                                                                         *)
(* Text that the code inspects character by character (position tokens)   *)
(* is a sequence of one-character strings; text that the code only builds  *)
(* and compares (info tokens, region descriptions, output columns) is a    *)
(* string.                                                                 *)
(***************************************************************************)
EXTENDS Integers, Sequences, FiniteSets, TLC

VARIABLES
    pyver,      \* major version of the interpreter running the package (2 or 3)
    stage,      \* position of the Pos scenario: "pos", "token", "parsed"
    p,          \* the Pos object at hand
    posstr,     \* the position token handed to parse_pos
    res,        \* what parse_pos did with posstr
    arith       \* the add / subtract calls made on a copy of p: the increment
                \* used, the calls' names, the copy now and before the last call

posvars == <<pyver, stage, p, posstr, res, arith>>

VARIABLES
    q,          \* the region query handed to normalize_reg
    q0,         \* the query as it was before the call
    warnings    \* the lines err_warn has written, oldest first

regvars == <<q, q0, warnings>>

VARIABLES
    rec,        \* the Record being assembled and rendered
    prev,       \* the Record as it was before the last call on it (None at first)
    last,       \* the last call on rec, with its arguments and its result
    nops,       \* number of set_splice / set_csqn_byreg / append_info calls made
    nfmt        \* number of formats() calls made

recvars == <<rec, prev, last, nops, nfmt>>

VARIABLES
    records0,       \* the Records handed to format_records, as handed
    records,        \* the same Records now (formats() changes their info)
    qop,            \* the query label
    args,           \* the run's options: oneline, gseq, custom, verbose, suspend
    custom_match,   \* format_records's custom_match argument
    stdout,         \* the lines printed, oldest first
    formatted,      \* whether format_records has run
    wrapped         \* what wrap_exception did (None before it runs)

fmtvars == <<records0, records, qop, args, custom_match, stdout, formatted, wrapped>>

VARIABLES
    span,           \* a RegSpanAnno under description
    same,           \* Some(same_region(span.b1, span.b2)) once computed
    fmt,            \* Some(what span.format() did) once called
    csqn_label        \* Some(span.csqn()) once called

annovars == <<span, same, fmt, csqn_label>>

vars == <<posvars, regvars, recvars, fmtvars, annovars>>

(***************************************************************************)
(* Bounds                                                                  *)
(***************************************************************************)
MaxLen == 4         \* longest position token
MaxBase == 12       \* |Pos.pos| of the Pos objects rendered
MaxOff == 3         \* |Pos.tpos| of the Pos objects rendered
MaxCoord == 5       \* largest region endpoint of a query
MinCoord == 2       \* the smallest region endpoint is -MinCoord
MaxRefLen == 3      \* longest reference sequence
MaxSplice == 2      \* most donor (acceptor) entries attached to a span
MaxOps == 2         \* most classification calls made on one Record
MaxFormats == 2     \* most formats() calls made on one Record
MaxRecords == 2     \* most Records handed to format_records
MaxVerbose == 2     \* highest verbosity level
MaxExon == 2        \* highest exon number of the sites described
MaxInc == 3         \* |inc| of the add / subtract calls
MaxMoves == 2       \* most add / subtract calls made on one Pos

(***************************************************************************)
(* Characters                                                              *)
(***************************************************************************)
DigitChars == <<"0", "1", "2", "3", "4", "5", "6", "7", "8", "9">>
Digits == {DigitChars[i] : i \in 1..10}
\* the characters position tokens are drawn from: digits, the three signs
\* of the grammar and one character outside every character class
TokChars == {"0", "1", "2", "+", "-", "*", "a"}

DigitVal(c) == CHOOSE i \in 0..9 : DigitChars[i + 1] = c

\* str.isdigit(): non-empty and every character a digit
isdigit(s) == Len(s) > 0 /\ \A i \in 1..Len(s) : s[i] \in Digits

\* int(s, base) of a digit string
RECURSIVE IntBase(_, _)
IntBase(s, base) ==
    IF Len(s) = 0 THEN 0
    ELSE IntBase(SubSeq(s, 1, Len(s) - 1), base) * base + DigitVal(s[Len(s)])

int(s) == IntBase(s, 10)

\* str(n) / '%d' % n
RECURSIVE NatChars(_)
NatChars(n) ==
    IF n < 10 THEN <<DigitChars[n + 1]>>
    ELSE NatChars(n \div 10) \o <<DigitChars[(n % 10) + 1]>>

str(n) == IF n < 0 THEN <<"-">> \o NatChars(-n) ELSE NatChars(n)

(***************************************************************************)
(* Pos                                                                     *)
(***************************************************************************)
Pos(pos, tpos) == [pos |-> pos, tpos |-> tpos]

\* Pos.__repr__ with its first test written tpos <= 0
Pos_repr_le(self) ==
    IF self.tpos <= 0 THEN str(self.pos) \o str(self.tpos)
    ELSE IF self.pos < 0 THEN <<"*">> \o str(self.tpos)
    ELSE str(self.pos) \o <<"+">> \o str(self.tpos)

\* Pos.__repr__
Pos_repr(self) ==
    IF self.tpos < 0 THEN str(self.pos) \o str(self.tpos)
    ELSE IF self.tpos > 0 THEN
        IF self.pos < 0 THEN <<"*">> \o str(self.tpos)
        ELSE str(self.pos) \o <<"+">> \o str(self.tpos)
    ELSE str(self.pos)

\* Pos.__eq__
Pos_eq(self, other) == self.pos = other.pos /\ self.tpos = other.tpos

\* Pos.add(inc): the Pos afterwards
Pos_add(self, inc) ==
    IF self.tpos = 0 THEN [self EXCEPT !.pos = self.pos + inc]
    ELSE [self EXCEPT !.tpos = self.tpos + inc]

\* subtract always taking from the base
Pos_subtract_base_only(self, inc) == [self EXCEPT !.pos = self.pos - inc]

\* Pos.subtract(inc): the Pos afterwards
Pos_subtract(self, inc) ==
    IF self.tpos = 0 THEN [self EXCEPT !.pos = self.pos - inc]
    ELSE [self EXCEPT !.tpos = self.tpos - inc]

(***************************************************************************)
(* eval() of a string over the characters [*+-0-9], as parse_pos uses it.  *)
(* The strings parse_pos hands to eval hold digits, '+', '-' and '*', so   *)
(* the expressions are built from decimal literals, unary and binary       *)
(* '+'/'-', '*' and '**', without parentheses.                             *)
(*                                                                         *)
(* A value is an int, a float or the ZeroDivisionError raised on the way.  *)
(* Of a float only the sign is kept (v in {-1, 0, 1}): the one place a     *)
(* float's value decides anything is as the exponent of base 0, and an     *)
(* exponent is a factor, never a product or a sum, so the sign of a sum    *)
(* involving a float is never read and is left 0.                          *)
(***************************************************************************)
IntV(n) == [k |-> "int", v |-> n]
FloatV(s) == [k |-> "float", v |-> s]
ZeroDiv == [k |-> "ZeroDivisionError", v |-> 0]
SyntaxErr == [k |-> "SyntaxError", v |-> 0]

Sgn(n) == IF n > 0 THEN 1 ELSE IF n < 0 THEN -1 ELSE 0

RECURSIVE IntPow(_, _)
IntPow(b, e) == IF e = 0 THEN 1 ELSE b * IntPow(b, e - 1)

PyNeg(x) == IF x.k = "ZeroDivisionError" THEN x ELSE [k |-> x.k, v |-> -x.v]

PyMul(a, b) ==
    IF a.k = "ZeroDivisionError" \/ b.k = "ZeroDivisionError" THEN ZeroDiv
    ELSE IF a.k = "int" /\ b.k = "int" THEN IntV(a.v * b.v)
    ELSE FloatV(Sgn(a.v) * Sgn(b.v))

PyAdd(a, op, b) ==
    IF a.k = "ZeroDivisionError" \/ b.k = "ZeroDivisionError" THEN ZeroDiv
    ELSE IF a.k = "int" /\ b.k = "int"
         THEN IntV(IF op = "+" THEN a.v + b.v ELSE a.v - b.v)
    ELSE FloatV(0)

\* base ** e for a literal base (never negative: a sign binds less tightly
\* than '**')
PyPow(base, e) ==
    IF e.k = "ZeroDivisionError" THEN ZeroDiv
    ELSE IF e.k = "int" THEN
        IF e.v >= 0 THEN IntV(IntPow(base, e.v))
        ELSE IF base = 0 THEN ZeroDiv
        ELSE FloatV(1)
    ELSE \* float exponent
        IF base > 0 THEN FloatV(1)
        ELSE IF e.v < 0 THEN ZeroDiv
        ELSE IF e.v = 0 THEN FloatV(1)
        ELSE FloatV(0)

\* length of the longest prefix of s whose characters are all in cls
RunLen(s, cls) ==
    CHOOSE n \in 0..Len(s) :
        /\ \A i \in 1..n : s[i] \in cls
        /\ n < Len(s) => s[n + 1] \notin cls

\* the tokens of the expression: number literals, '+', '-', '*', '**'
RECURSIVE Lex(_)
Lex(s) ==
    IF Len(s) = 0 THEN <<>>
    ELSE IF s[1] \in Digits THEN
        LET n == RunLen(s, Digits)
        IN  <<[t |-> "num", lit |-> SubSeq(s, 1, n)]>> \o Lex(SubSeq(s, n + 1, Len(s)))
    ELSE IF s[1] = "*" /\ Len(s) >= 2 /\ s[2] = "*" THEN
        <<[t |-> "**", lit |-> <<>>]>> \o Lex(SubSeq(s, 3, Len(s)))
    ELSE <<[t |-> s[1], lit |-> <<>>]>> \o Lex(Tail(s))

AllZero(lit) == \A i \in 1..Len(lit) : lit[i] = "0"

\* Is the digit string an integer literal?  Python 3 rejects a leading zero
\* on a non-zero literal; Python 2 reads a leading zero as octal and rejects
\* the digits 8 and 9 in it.
LitOk(lit, ver) ==
    IF Len(lit) = 1 \/ lit[1] # "0" THEN TRUE
    ELSE IF ver = 3 THEN AllZero(lit)
    ELSE \A i \in 1..Len(lit) : lit[i] \notin {"8", "9"}

LitVal(lit, ver) ==
    IF Len(lit) > 1 /\ lit[1] = "0" /\ ver = 2 THEN IntBase(lit, 8) ELSE int(lit)

\* the parser: every function returns the value parsed from token i on and
\* the index of the first token it did not use; ok is FALSE on a syntax error
NoParse == [ok |-> FALSE, val |-> IntV(0), i |-> 0]
Parsed(val, i) == [ok |-> TRUE, val |-> val, i |-> i]

RECURSIVE Factor(_, _, _)
Power(ts, i, ver) ==
    IF i > Len(ts) THEN NoParse
    ELSE IF ts[i].t # "num" THEN NoParse
    ELSE IF ~LitOk(ts[i].lit, ver) THEN NoParse
    ELSE LET base == LitVal(ts[i].lit, ver) IN
        IF i + 1 <= Len(ts) /\ ts[i + 1].t = "**" THEN
            LET e == Factor(ts, i + 2, ver)
            IN  IF e.ok THEN Parsed(PyPow(base, e.val), e.i) ELSE NoParse
        ELSE Parsed(IntV(base), i + 1)

Factor(ts, i, ver) ==
    IF i > Len(ts) THEN NoParse
    ELSE IF ts[i].t \in {"+", "-"} THEN
        LET f == Factor(ts, i + 1, ver)
        IN  IF ~f.ok THEN NoParse
            ELSE Parsed(IF ts[i].t = "-" THEN PyNeg(f.val) ELSE f.val, f.i)
    ELSE Power(ts, i, ver)

RECURSIVE TermTail(_, _, _)
TermTail(ts, acc, ver) ==
    IF ~acc.ok THEN acc
    ELSE IF acc.i <= Len(ts) /\ ts[acc.i].t = "*" THEN
        LET f == Factor(ts, acc.i + 1, ver)
        IN  IF ~f.ok THEN NoParse
            ELSE TermTail(ts, Parsed(PyMul(acc.val, f.val), f.i), ver)
    ELSE acc

Term(ts, i, ver) == TermTail(ts, Factor(ts, i, ver), ver)

RECURSIVE ExprTail(_, _, _)
ExprTail(ts, acc, ver) ==
    IF ~acc.ok THEN acc
    ELSE IF acc.i <= Len(ts) /\ ts[acc.i].t \in {"+", "-"} THEN
        LET f == Term(ts, acc.i + 1, ver)
        IN  IF ~f.ok THEN NoParse
            ELSE ExprTail(ts, Parsed(PyAdd(acc.val, ts[acc.i].t, f.val), f.i), ver)
    ELSE acc

\* eval(s): a syntax error anywhere in s is raised before anything is
\* computed; otherwise the value, or the ZeroDivisionError met computing it
eval(s, ver) ==
    LET ts == Lex(s)
        r == ExprTail(ts, Term(ts, 1, ver), ver)
    IN  IF ~r.ok \/ r.i <= Len(ts) THEN SyntaxErr ELSE r.val

(***************************************************************************)
(* parse_pos                                                               *)
(***************************************************************************)
\* re.match(r'(\d+)([+\-0-9]+)', s): the groups as <<g1, g2>>, or <<>> when
\* there is no match.  \d+ is greedy and gives back one digit when nothing
\* of the second class follows the digits.
Match2(s) ==
    LET d == RunLen(s, Digits)
        r == RunLen(s, Digits \cup {"+", "-"})
    IN  IF d = 0 THEN <<>>
        ELSE IF r > d THEN <<SubSeq(s, 1, d), SubSeq(s, d + 1, r)>>
        ELSE IF d >= 2 THEN <<SubSeq(s, 1, d - 1), SubSeq(s, d, d)>>
        ELSE <<>>

\* re.match(r'([*+\-0-9]+)', s): the group as <<g1>>, or <<>>
Match3(s) ==
    LET r == RunLen(s, Digits \cup {"+", "-", "*"})
    IN  IF r = 0 THEN <<>> ELSE <<SubSeq(s, 1, r)>>

\* What a call did: exc is "" when it returned, else the exception raised.
\* A returned Pos has pos and tpos; tpos_float says that tpos is a float
\* (its value is not kept, tpos is then 0).
Raised(exc) == [exc |-> exc, pos |-> 0, tpos |-> 0, tpos_float |-> FALSE]

ReturnedPos(pos, tposval) ==
    IF tposval.k \in {"SyntaxError", "ZeroDivisionError"} THEN Raised(tposval.k)
    ELSE IF tposval.k = "float"
         THEN [exc |-> "", pos |-> pos, tpos |-> 0, tpos_float |-> TRUE]
    ELSE [exc |-> "", pos |-> pos, tpos |-> tposval.v, tpos_float |-> FALSE]

parse_pos(s, ver) ==
    IF isdigit(s) THEN ReturnedPos(int(s), IntV(0))
    ELSE IF Match2(s) # <<>> THEN
        ReturnedPos(int(Match2(s)[1]), eval(Match2(s)[2], ver))
    ELSE IF Match3(s) # <<>> THEN
        LET g == Match3(s)[1]
            tpos == IF g[1] = "*" THEN Tail(g) ELSE g
        IN  ReturnedPos(IF g[1] = "-" THEN 1 ELSE -1, eval(tpos, ver))
    ELSE Raised("InvalidInputError")

(***************************************************************************)
(* normalize_reg                                                           *)
(***************************************************************************)
\* utils.err_warn: writes one warning line
err_warn(log, msg) == Append(log, msg)

\* faidx.reflen: the length of the reference sequence the token names
reflen(tok) == tok.len

\* normalize_reg without its last test (a negative end is left alone)
normalize_reg_no_end_floor(query, log) ==
    LET q1 == IF query.beg > reflen(query.tok)
              THEN [query EXCEPT !.beg = reflen(query.tok)] ELSE query
        l1 == IF query.beg > reflen(query.tok)
              THEN err_warn(log, "region beg " \o ToString(query.beg)
                        \o " greater than chromosome length "
                        \o ToString(reflen(query.tok)) \o ", truncated.")
              ELSE log
        q2 == IF q1.end > reflen(q1.tok) THEN [q1 EXCEPT !.end = reflen(q1.tok)] ELSE q1
        l2 == IF q1.end > reflen(q1.tok)
              THEN err_warn(l1, "region end " \o ToString(q1.end)
                        \o " greater than chromosome length "
                        \o ToString(reflen(q1.tok)) \o ", truncated.")
              ELSE l1
        q3 == IF q2.beg < 0 THEN [q2 EXCEPT !.beg = 0] ELSE q2
        l3 == IF q2.beg < 0
              THEN err_warn(l2, "region beg %d negative, truncated to 0.") ELSE l2
    IN  [q |-> q3, log |-> l3]

\* normalize_reg(q): the query and the warning log after the call.  The two
\* 'negative' messages are written with their %d unfilled, as the code
\* passes no argument to the format.
normalize_reg(query, log) ==
    LET q1 == IF query.beg > reflen(query.tok)
              THEN [query EXCEPT !.beg = reflen(query.tok)] ELSE query
        l1 == IF query.beg > reflen(query.tok)
              THEN err_warn(log, "region beg " \o ToString(query.beg)
                        \o " greater than chromosome length "
                        \o ToString(reflen(query.tok)) \o ", truncated.")
              ELSE log
        q2 == IF q1.end > reflen(q1.tok) THEN [q1 EXCEPT !.end = reflen(q1.tok)] ELSE q1
        l2 == IF q1.end > reflen(q1.tok)
              THEN err_warn(l1, "region end " \o ToString(q1.end)
                        \o " greater than chromosome length "
                        \o ToString(reflen(q1.tok)) \o ", truncated.")
              ELSE l1
        q3 == IF q2.beg < 0 THEN [q2 EXCEPT !.beg = 0] ELSE q2
        l3 == IF q2.beg < 0
              THEN err_warn(l2, "region beg %d negative, truncated to 0.") ELSE l2
        q4 == IF q3.end < 0 THEN [q3 EXCEPT !.end = 0] ELSE q3
        l4 == IF q3.end < 0
              THEN err_warn(l3, "region end %d negative, truncated to 0.") ELSE l3
    IN  [q |-> q4, log |-> l4]

(***************************************************************************)
(* Optional attributes.  The code attaches attributes to an annotation     *)
(* when they apply and tests them with hasattr, and it holds None in       *)
(* others: both are a sequence here, empty when the attribute is missing   *)
(* (or None) and <<value>> when it is set.                                 *)
(***************************************************************************)
None == <<>>
Some(x) == <<x>>
hasattr(opt) == opt # <<>>

\* sep.join(parts)
RECURSIVE join(_, _)
join(sep, parts) ==
    IF Len(parts) = 0 THEN ""
    ELSE IF Len(parts) = 1 THEN parts[1]
    ELSE parts[1] \o sep \o join(sep, Tail(parts))

\* [f(x) for x in xs]
RECURSIVE MapSeq(_, _)
MapSeq(F(_), xs) == IF Len(xs) = 0 THEN <<>> ELSE <<F(xs[1])>> \o MapSeq(F, Tail(xs))

(***************************************************************************)
(* The transcripts of the external transcript model, as far as record.py   *)
(* reads them: gene_name, strand, chrm, cds_beg, cds_end, gene_dbxref,     *)
(* aliases, source.  Two transcripts are the same when they are the same   *)
(* object, which name stands for.                                          *)
(***************************************************************************)
T1 ==
    [name |-> "NM_1", gene_name |-> "GENE1", strand |-> "+", chrm |-> "chr1",
     cds_beg |-> 100, cds_end |-> 900, gene_dbxref |-> "", aliases |-> <<>>,
     source |-> ""]
T2 ==
    [name |-> "NM_2", gene_name |-> "GENE2", strand |-> "-", chrm |-> "chr2",
     cds_beg |-> 200, cds_end |-> 800, gene_dbxref |-> "HGNC:2",
     aliases |-> <<"G2A", "G2B">>, source |-> "RefSeq"]
Transcripts == {T1, T2}

(***************************************************************************)
(* RegIntergenicAnno                                                       *)
(***************************************************************************)
\* format_group(d): locale.format('%d', d, grouping=False)
format_group(d) == ToString(d)

RegIntergenicAnno_e5_stream(self) ==
    IF self.e5_strand = None THEN "None"
    ELSE IF self.e5_strand[1] = "+" THEN "downstream" ELSE "upstream"

RegIntergenicAnno_e3_stream(self) ==
    IF self.e3_strand = None THEN "None"
    ELSE IF self.e3_strand[1] = "-" THEN "downstream" ELSE "upstream"

RegIntergenicAnno_format0(self) ==
    "intergenic_between_" \o self.e5_name \o "("
    \o (IF self.e5_strand = None THEN format_group(self.e5_dist) \o "_bp"
        ELSE format_group(self.e5_dist) \o "_bp_" \o RegIntergenicAnno_e5_stream(self))
    \o ")_and_" \o self.e3_name \o "("
    \o (IF self.e3_strand = None THEN format_group(self.e3_dist) \o "_bp"
        ELSE format_group(self.e3_dist) \o "_bp_" \o RegIntergenicAnno_e3_stream(self))
    \o ")"

RegIntergenicAnno_format(self) == "inside_[" \o RegIntergenicAnno_format0(self) \o "]"

(***************************************************************************)
(* RegAnno: the annotation of a single site                                *)
(***************************************************************************)
\* append_inf(f, a)
append_inf(f, a) == IF f # "" THEN f \o ";" \o a ELSE a

\* RegAnno.__init__, and the attributes attached later (all missing)
RegAnno ==
    [cls |-> "RegAnno",
     exonic |-> FALSE, exon |-> None, cds |-> FALSE, UTR |-> None,
     intronic |-> FALSE, intron_exon1 |-> None, intron_exon2 |-> None,
     cds_beg |-> None, cds_end |-> None,
     intergenic |-> None, t |-> None, splice |-> None, tss |-> None, tes |-> None]

RegAnno_genic(self) == ~hasattr(self.intergenic)

RegAnno_csqn(self) ==
    IF self.intronic THEN "Intronic"
    ELSE IF self.UTR # None THEN self.UTR[1] \o "-UTR"
    ELSE IF hasattr(self.intergenic) THEN "Intergenic"
    ELSE "Unclassified"

\* What a call that builds text did: exc is "" and s the text, or exc is
\* the exception raised
Text(s) == [exc |-> "", s |-> s]
TextRaised(exc) == [exc |-> exc, s |-> ""]

\* RegAnno.format0(with_name): self.t.gene_name raises AttributeError when
\* no transcript is attached
RegAnno_format0(self, with_name) ==
    IF hasattr(self.intergenic) THEN Text(RegIntergenicAnno_format0(self.intergenic[1]))
    ELSE
        LET f1 == IF self.UTR # None THEN append_inf("", self.UTR[1] \o "-UTR") ELSE ""
            f2 == IF self.intronic THEN
                      append_inf(f1, "intron_between_exon_" \o ToString(self.intron_exon1[1])
                                     \o "_and_" \o ToString(self.intron_exon2[1]))
                  ELSE IF self.exonic THEN
                      IF self.cds
                      THEN append_inf(f1, "cds_in_exon_" \o ToString(self.exon[1]))
                      ELSE append_inf(f1, "noncoding_exon_" \o ToString(self.exon[1]))
                  ELSE f1
        IN  IF ~with_name THEN Text(f2)
            ELSE IF ~hasattr(self.t) THEN TextRaised("AttributeError")
            ELSE Text(append_inf(f2, self.t[1].gene_name))

\* RegAnno.format(): with_name is False, so nothing is raised
RegAnno_format(self) == "inside_[" \o RegAnno_format0(self, FALSE).s \o "]"

\* same_region with the transcript test left out
same_region_format_only(r1, r2) == RegAnno_format(r1) = RegAnno_format(r2)

\* same_region(r1, r2)
same_region(r1, r2) ==
    /\ RegAnno_format(r1) = RegAnno_format(r2)
    /\ (~hasattr(r1.t) \/ ~hasattr(r2.t) \/ r1.t[1] = r2.t[1])

(***************************************************************************)
(* RegSpanAnno: the annotation of a span                                   *)
(***************************************************************************)
\* RegSpanAnno.__init__, and the attributes attached later (all missing).
\* intergenic, when attached, is [anno : RegIntergenicAnno, spanning : list];
\* splice_donors and splice_acceptors are lists of <<exind, chrm, spos>>;
\* spanning is a list of gene names.
RegSpanAnno ==
    [cls |-> "RegSpanAnno", b1 |-> RegAnno, b2 |-> RegAnno, spanning |-> <<>>,
     intergenic |-> None, splice_donors |-> None, splice_acceptors |-> None,
     splice_both |-> None, cross_start |-> None, cross_end |-> None, t |-> None]

RegSpanAnno_in_UTR(self) ==
    self.b1.UTR # None /\ self.b2.UTR # None /\ self.b1.UTR = self.b2.UTR

RegSpanAnno_in_exon(self) ==
    self.b1.exonic /\ self.b2.exonic /\ self.b1.exon = self.b2.exon

RegSpanAnno_entirely_in_cds(self) ==
    self.b1.cds /\ self.b2.cds /\ self.b1.exon = self.b2.exon

RegSpanAnno_in_intron(self) ==
    /\ self.b1.intronic /\ self.b2.intronic
    /\ self.b1.intron_exon1 = self.b2.intron_exon1
    /\ self.b1.intron_exon2 = self.b2.intron_exon2

\* the UTR test made before the intron test
RegSpanAnno_csqn_UTR_first(self) ==
    IF hasattr(self.intergenic) /\ Len(self.intergenic[1].spanning) = 0 THEN "Intergenic"
    ELSE IF hasattr(self.splice_donors) /\ Len(self.splice_donors[1]) > 0 THEN "SpliceDonor"
    ELSE IF hasattr(self.splice_acceptors) /\ Len(self.splice_acceptors[1]) > 0
         THEN "SpliceAcceptor"
    ELSE IF RegSpanAnno_in_UTR(self) THEN self.b1.UTR[1] \o "-UTR"
    ELSE IF RegSpanAnno_in_intron(self) THEN "Intronic"
    ELSE "Unclassified"

\* RegSpanAnno.csqn()
RegSpanAnno_csqn(self) ==
    IF hasattr(self.intergenic) /\ Len(self.intergenic[1].spanning) = 0 THEN "Intergenic"
    ELSE IF hasattr(self.splice_donors) /\ Len(self.splice_donors[1]) > 0 THEN "SpliceDonor"
    ELSE IF hasattr(self.splice_acceptors) /\ Len(self.splice_acceptors[1]) > 0
         THEN "SpliceAcceptor"
    ELSE IF RegSpanAnno_in_intron(self) THEN "Intronic"
    ELSE IF RegSpanAnno_in_UTR(self) THEN self.b1.UTR[1] \o "-UTR"
    ELSE "Unclassified"

\* the '_spanning_[...]' suffix of a large region
SpanningSuffix(spanning) ==
    IF Len(spanning) = 0 THEN ""
    ELSE IF Len(spanning) <= 5 THEN "_spanning_[" \o join(",", spanning) \o "]"
    ELSE "_spanning_[" \o ToString(Len(spanning)) \o "_genes]"

RegSpanAnno_format(self) ==
    IF hasattr(self.intergenic) THEN Text(RegIntergenicAnno_format(self.intergenic[1].anno))
    ELSE IF same_region(self.b1, self.b2)
         THEN Text("inside_[" \o RegAnno_format0(self.b1, FALSE).s \o "]")
    ELSE
        LET with_name == ~(hasattr(self.b1.t) /\ hasattr(self.b2.t)
                           /\ self.b1.t[1] = self.b2.t[1])
            f1 == RegAnno_format0(self.b1, with_name)
            f2 == RegAnno_format0(self.b2, with_name)
        IN  IF f1.exc # "" THEN f1
            ELSE IF f2.exc # "" THEN f2
            ELSE Text("from_[" \o f1.s \o "]_to_[" \o f2.s \o "]"
                      \o SpanningSuffix(self.spanning))

(***************************************************************************)
(* SpliceSite                                                              *)
(***************************************************************************)
SpliceSite ==
    [chrm |-> "chrNA", pos |-> -1, exonno |-> -1, stype |-> "Donor", nextto |-> FALSE]

SpliceSite_format(self) ==
    (IF self.nextto THEN "NextTo" ELSE "")
    \o "Splice" \o self.stype \o "OfExon" \o ToString(self.exonno)
    \o "_At_" \o self.chrm \o ":" \o ToString(self.pos)

(***************************************************************************)
(* Record.  info is the list of the ';'-separated tokens of the info       *)
(* string (the string is their ';'-join: '.' is <<".">>, '' is <<"">>).    *)
(* An attribute the code reads as "hasattr(self, x) and self.x" is "" or 0 *)
(* when it is missing or false.  An unset reg is the str '.'.              *)
(***************************************************************************)
StrReg == [cls |-> "str", value |-> "."]

\* Record.__init__(is_var), and the coordinate attributes attached later
Record(is_var) ==
    [tname |-> ".", chrm |-> ".", gene |-> ".", strand |-> ".", reg |-> StrReg,
     info |-> <<".">>, is_var |-> is_var, csqn |-> <<>>,
     gnuc_range |-> "", gnuc_pos |-> 0, gnuc_ref |-> "", gnuc_alt |-> "",
     tnuc_range |-> "", tnuc_pos |-> None, tnuc_ref |-> "", tnuc_alt |-> "",
     taa_range |-> "", taa_ref |-> "", taa_pos |-> 0, taa_alt |-> "",
     vcf_pos |-> 0, vcf_ref |-> "", vcf_alt |-> ""]

\* the info string
InfoStr(info) == join(";", info)

\* Record.tnuc(); tnuc_pos is a Pos
Record_tnuc(self) ==
    IF self.tnuc_range # "" THEN "c." \o self.tnuc_range
    ELSE
        LET s == "c."
                 \o (IF self.tnuc_pos # None THEN join("", Pos_repr(self.tnuc_pos[1])) ELSE "")
                 \o self.tnuc_ref \o ">" \o self.tnuc_alt
        IN  IF s = "c.>" THEN "." ELSE s

\* Record.gnuc()
Record_gnuc(self) ==
    LET s == self.chrm \o ":g."
             \o (IF self.gnuc_range # "" THEN self.gnuc_range
                 ELSE (IF self.gnuc_pos # 0 THEN ToString(self.gnuc_pos) ELSE "")
                      \o self.gnuc_ref \o ">" \o self.gnuc_alt)
    IN  IF s = ".:g.>" THEN "." ELSE s

\* Record.taa()
Record_taa(self) ==
    LET s == "p."
             \o (IF self.taa_range # "" THEN self.taa_range
                 ELSE self.taa_ref
                      \o (IF self.taa_pos # 0 THEN ToString(self.taa_pos) ELSE "")
                      \o self.taa_alt)
    IN  IF s = "p." THEN "." ELSE s

\* Record.prepend_info(app): the info afterwards
prepend_info(info, app) ==
    IF info # <<"">> /\ info # <<".">> THEN <<app>> \o info ELSE <<app>>

\* Record.append_info(app): the info afterwards
append_info(info, app) ==
    IF info # <<"">> /\ info # <<".">> THEN info \o <<app>> ELSE <<app>>

\* the loop run from the last entry to the first
RECURSIVE append_each_reversed(_, _)
append_each_reversed(info, toks) ==
    IF Len(toks) = 0 THEN info
    ELSE append_each_reversed(append_info(info, toks[Len(toks)]),
                              SubSeq(toks, 1, Len(toks) - 1))

\* for ... in entries: self.append_info(token of the entry), toks being the
\* entries' tokens in entry order
RECURSIVE append_each(_, _)
append_each(info, toks) ==
    IF Len(toks) = 0 THEN info
    ELSE append_each(append_info(info, toks[1]), Tail(toks))

\* reg.csqn() / reg.format() of the reg a Record holds
Reg_csqn(reg) ==
    IF reg.cls = "RegSpanAnno" THEN RegSpanAnno_csqn(reg) ELSE RegAnno_csqn(reg)

Reg_format(reg) ==
    IF reg.cls = "str" THEN Text(reg.value)
    ELSE IF reg.cls = "RegSpanAnno" THEN RegSpanAnno_format(reg)
    ELSE Text(RegAnno_format(reg))

\* the state set_splice works on: the tag list, the info and its result
Splice(c, i, e) == [csqn |-> c, info |-> i, expt |-> e]

\* the info token of a donor or acceptor entry <<exind, chrm, spos>>
EntryToken(kind, d, action) ==
    "C2=" \o kind \o "_splice_site_on_exon_" \o ToString(d[1]) \o "_at_"
    \o d[2] \o ":" \o ToString(d[3]) \o action

\* set_splice on a span: the donor entries
span_splice_donors(s, reg, action, csqn_action) ==
    IF hasattr(reg.splice_donors) THEN
        Splice(IF Len(reg.splice_donors[1]) > 0
               THEN Append(s.csqn, "SpliceDonor" \o csqn_action) ELSE s.csqn,
               append_each(s.info, [i \in 1..Len(reg.splice_donors[1]) |->
                                       EntryToken("donor", reg.splice_donors[1][i], action)]),
               s.expt \/ Len(reg.splice_donors[1]) > 0)
    ELSE s

\* set_splice on a span: the acceptor entries
span_splice_acceptors(s, reg, action, csqn_action) ==
    IF hasattr(reg.splice_acceptors) THEN
        Splice(IF Len(reg.splice_acceptors[1]) > 0
               THEN Append(s.csqn, "SpliceAcceptor" \o csqn_action) ELSE s.csqn,
               append_each(s.info, [i \in 1..Len(reg.splice_acceptors[1]) |->
                                       EntryToken("acceptor", reg.splice_acceptors[1][i], action)]),
               s.expt \/ Len(reg.splice_acceptors[1]) > 0)
    ELSE s

\* set_splice on a span: the exons lost whole
span_splice_both(s, reg, action, csqn_action) ==
    IF hasattr(reg.splice_both) /\ Len(reg.splice_both[1]) > 0 THEN
        Splice(s.csqn,
               append_info(s.info, "whole_exon_["
                   \o join(",", [i \in 1..Len(reg.splice_both[1]) |->
                                    ToString(reg.splice_both[1][i])])
                   \o "]" \o action),
               TRUE)
    ELSE s

\* set_splice on a span: the span crosses the CDS start
span_cross_start(s, reg, action, csqn_action) ==
    IF hasattr(reg.cross_start) /\ reg.cross_start[1] THEN
        IF reg.t[1].strand = "+" THEN
            Splice(Append(s.csqn, "CdsStart" \o csqn_action),
                   append_info(s.info, "cds_start_at_" \o reg.t[1].chrm \o ":"
                       \o ToString(reg.t[1].cds_beg) \o action),
                   TRUE)
        ELSE
            Splice(Append(s.csqn, "CdsStop" \o csqn_action),
                   append_info(s.info, "cds_stop_at_" \o reg.t[1].chrm \o ":"
                       \o ToString(reg.t[1].cds_beg) \o action),
                   TRUE)
    ELSE s

\* the CDS end labelled CdsStop on either strand
span_cross_end_no_inversion(s, reg, action, csqn_action) ==
    IF hasattr(reg.cross_end) /\ reg.cross_end[1] THEN
        Splice(Append(s.csqn, "CdsStop" \o csqn_action),
               append_info(s.info, "cds_end_at_" \o reg.t[1].chrm \o ":"
                   \o ToString(reg.t[1].cds_end) \o action),
               TRUE)
    ELSE s

\* set_splice on a span: the span crosses the CDS end
span_cross_end(s, reg, action, csqn_action) ==
    IF hasattr(reg.cross_end) /\ reg.cross_end[1] THEN
        IF reg.t[1].strand = "+" THEN
            Splice(Append(s.csqn, "CdsStop" \o csqn_action),
                   append_info(s.info, "cds_end_at_" \o reg.t[1].chrm \o ":"
                       \o ToString(reg.t[1].cds_end) \o action),
                   TRUE)
        ELSE
            Splice(Append(s.csqn, "CdsStart" \o csqn_action),
                   append_info(s.info, "cds_start_at_" \o reg.t[1].chrm \o ":"
                       \o ToString(reg.t[1].cds_end) \o action),
                   TRUE)
    ELSE s

\* Record.set_splice on a span
set_splice_span(self, action, csqn_action) ==
    span_cross_end(
        span_cross_start(
            span_splice_both(
                span_splice_acceptors(
                    span_splice_donors(Splice(self.csqn, self.info, FALSE),
                                       self.reg, action, csqn_action),
                    self.reg, action, csqn_action),
                self.reg, action, csqn_action),
            self.reg, action, csqn_action),
        self.reg, action, csqn_action)

\* set_splice on a single site: the splice site
site_splice(s, reg, csqn_action) ==
    IF hasattr(reg.splice) THEN
        Splice(IF ~reg.splice[1].nextto /\ csqn_action # "Synonymous"
               THEN Append(s.csqn, "Splice" \o reg.splice[1].stype \o csqn_action)
               ELSE s.csqn,
               append_info(s.info, "C2=" \o SpliceSite_format(reg.splice[1])),
               s.expt \/ (~reg.splice[1].nextto /\ csqn_action # "Synonymous"))
    ELSE s

\* set_splice on a single site: the CDS start
site_cds_beg(s, reg, csqn_action) ==
    IF reg.cds_beg # None THEN
        Splice(Append(s.csqn, "CdsStart" \o csqn_action),
               append_info(s.info, "C2=cds_start_at_" \o reg.t[1].chrm \o ":"
                   \o ToString(reg.cds_beg[1])),
               s.expt \/ csqn_action # "Synonymous")
    ELSE s

\* set_splice on a single site: the CDS end
site_cds_end(s, reg, csqn_action) ==
    IF reg.cds_end # None THEN
        Splice(Append(s.csqn, "CdsStop" \o csqn_action),
               append_info(s.info, "C2=cds_end_at_" \o reg.t[1].chrm \o ":"
                   \o ToString(reg.cds_end[1])),
               s.expt \/ csqn_action # "Synonymous")
    ELSE s

\* the transcription start noted in the info and not in the result
site_tss_not_returned(s, reg, csqn_action) ==
    IF hasattr(reg.tss) THEN
        Splice(s.csqn,
               append_info(s.info, "transcription_start_at_" \o reg.t[1].chrm \o ":"
                   \o ToString(reg.tss[1])),
               s.expt)
    ELSE s

\* set_splice on a single site: the transcription start
site_tss(s, reg, csqn_action) ==
    IF hasattr(reg.tss) THEN
        Splice(s.csqn,
               append_info(s.info, "transcription_start_at_" \o reg.t[1].chrm \o ":"
                   \o ToString(reg.tss[1])),
               s.expt \/ csqn_action # "Synonymous")
    ELSE s

\* set_splice on a single site: the transcription end
site_tes(s, reg, csqn_action) ==
    IF hasattr(reg.tes) THEN
        Splice(s.csqn,
               append_info(s.info, "transcription_end_at_" \o reg.t[1].chrm \o ":"
                   \o ToString(reg.tes[1])),
               s.expt \/ csqn_action # "Synonymous")
    ELSE s

\* Record.set_splice on a single site
set_splice_site(self, action, csqn_action) ==
    site_tes(
        site_tss(
            site_cds_end(
                site_cds_beg(
                    site_splice(Splice(self.csqn, self.info, FALSE), self.reg, csqn_action),
                    self.reg, csqn_action),
                self.reg, csqn_action),
            self.reg, csqn_action),
        self.reg, csqn_action)

\* set_splice: if action: action = '_'+action
Underscored(action) == IF action # "" THEN "_" \o action ELSE action

\* the Record set_splice leaves and the value it returns, s being the tags,
\* info and result it built
set_splice_done(self, s) ==
    [r |-> [self EXCEPT !.csqn = s.csqn, !.info = s.info], expt |-> s.expt]

\* Record.set_splice(action, csqn_action): the Record afterwards and the
\* value returned
set_splice(self, action, csqn_action) ==
    set_splice_done(self,
        IF self.reg.cls = "RegSpanAnno"
        THEN set_splice_span(self, Underscored(action), csqn_action)
        ELSE set_splice_site(self, Underscored(action), csqn_action))

\* Record.set_csqn_byreg(action): the Record afterwards
set_csqn_byreg(self, action) ==
    [self EXCEPT !.csqn = Append(self.csqn, Reg_csqn(self.reg) \o action)]

\* the set of the values of a list
SetOf(xs) == {xs[i] : i \in 1..Len(xs)}

\* the token with the tags counted, not the distinct tags
CsqnToken_len(csqn) ==
    IF Len(csqn) = 0 THEN "CSQN=Unclassified"
    ELSE IF Len(csqn) = 1 THEN "CSQN=" \o csqn[1]
    ELSE "CSQN=Multi:" \o join(",", csqn)

\* the consequence token formats() prepends to a variant Record
CsqnToken(csqn) ==
    IF Len(csqn) = 0 THEN "CSQN=Unclassified"
    ELSE IF Cardinality(SetOf(csqn)) = 1 THEN "CSQN=" \o csqn[1]
    ELSE "CSQN=Multi:" \o join(",", csqn)

LONG_MSG == "[LONG SEQUENCE, see --seqmax]"

\* formats(): the info of a variant Record gets its consequence token
formats_csqn(self) ==
    IF self.is_var THEN prepend_info(self.info, CsqnToken(self.csqn)) ELSE self.info

\* the transcript of the reg a Record holds, None when it has none
RegT(reg) == IF reg.cls # "str" /\ hasattr(reg.t) THEN reg.t ELSE None

\* if <cond>: self.append_info(app)
append_if(cond, info, app) == IF cond THEN append_info(info, app) ELSE info

\* formats(): the transcript's dbxref, aliases and source
formats_meta(info, t) ==
    IF t = None THEN info
    ELSE append_if(t[1].source # "",
                   append_if(Len(t[1].aliases) > 0,
                             append_if(t[1].gene_dbxref # "", info,
                                       "dbxref=" \o t[1].gene_dbxref),
                             "aliases=" \o join(",", t[1].aliases)),
                   "source=" \o t[1].source)

\* formats(): the genomic-sequence columns
formats_gseq(r, opts) ==
    IF opts.gseq THEN
        "\t" \o r.chrm
        \o "\t" \o (IF r.vcf_pos # 0 THEN ToString(r.vcf_pos) ELSE ".")
        \o "\t" \o (IF r.vcf_ref # "" THEN r.vcf_ref ELSE LONG_MSG)
        \o "\t" \o (IF r.vcf_alt # "" THEN r.vcf_alt ELSE LONG_MSG)
    ELSE ""

\* formats(): the template filled in, reg being what self.reg.format() did
formats_text(r, reg, opts) ==
    IF reg.exc # "" THEN [r |-> r, exc |-> reg.exc, s |-> ""]
    ELSE [r |-> r, exc |-> "",
          s |-> r.tname \o "\t" \o r.gene \o "\t" \o r.strand \o "\t"
                \o Record_gnuc(r) \o "/" \o Record_tnuc(r) \o "/" \o Record_taa(r) \o "\t"
                \o reg.s \o "\t" \o InfoStr(r.info) \o formats_gseq(r, opts)]

\* Record.formats(args): the Record afterwards and the text returned, or
\* the exception reg.format() raised
Record_formats(self, opts) ==
    formats_text([self EXCEPT !.info = formats_meta(formats_csqn(self), RegT(self.reg))],
                 Reg_format(self.reg), opts)

\* the line Record.format(op, args) prints
LabelPrefix(op) == IF op # "" THEN op \o "\t" ELSE ""

(***************************************************************************)
(* format_records and wrap_exception.  print is taken to succeed: the      *)
(* IOError branches (sys.exit(1) on a closed stdout) are not modelled.     *)
(***************************************************************************)
\* the label '*' is put on whenever custom mode is active
Fqop_custom_only(label, opts, matched) == IF opts.custom THEN "*" \o label ELSE label

\* fqop: the label, flagged with '*' in custom mode when the result is no
\* custom match
Fqop(label, opts, matched) ==
    IF opts.custom /\ ~matched THEN "*" \o label ELSE label

\* the line Record.format(op, args) prints, given the text formats() returned
FormatLine(op, text) == LabelPrefix(op) \o text

\* the grouped line with a bare '|||' between the Records
OneLine_bare_separator(op, texts) == LabelPrefix(op) \o join("|||", texts)

\* the grouped line of the one-line mode
OneLine(op, texts) == LabelPrefix(op) \o join("\t|||\t", texts)

\* the index of the first Record whose formats() raises, 0 when none does
FirstRaise(got) ==
    IF \E i \in 1..Len(got) : got[i].exc # ""
    THEN CHOOSE i \in 1..Len(got) :
            got[i].exc # "" /\ \A j \in 1..(i - 1) : got[j].exc = ""
    ELSE 0

\* format_records on a list that is not empty: got[i] is what formats() did
\* on the i-th Record and bad the index of the first one that raised
records_printed(recs, fqop, opts, got, bad) ==
    [records |-> [i \in 1..Len(recs) |-> IF bad = 0 \/ i <= bad THEN got[i].r ELSE recs[i]],
     out |-> IF opts.oneline THEN
                 IF bad = 0
                 THEN <<OneLine(fqop, [i \in 1..Len(recs) |-> got[i].s])>>
                 ELSE <<>>
             ELSE [i \in 1..(IF bad = 0 THEN Len(recs) ELSE bad - 1) |->
                      FormatLine(fqop, got[i].s)],
     exc |-> IF bad = 0 THEN "" ELSE got[bad].exc]

\* format_records(records, qop, args, custom_match) on a list that is not empty
format_each(recs, fqop, opts, got) ==
    records_printed(recs, fqop, opts, got, FirstRaise(got))

\* r = Record(); r.append_info('no_valid_transcript_found')
NotFoundRecord ==
    [Record(FALSE) EXCEPT
        !.info = append_info(Record(FALSE).info, "no_valid_transcript_found")]

\* format_records(records, qop, args, custom_match): the Records afterwards,
\* the lines printed and the exception that ended the call ("" when none)
format_records(recs, label, opts, matched) ==
    IF Len(recs) > 0 THEN
        format_each(recs, Fqop(label, opts, matched), opts,
                    [i \in 1..Len(recs) |-> Record_formats(recs[i], opts)])
    ELSE
        [records |-> recs,
         out |-> <<FormatLine(Fqop(label, opts, matched),
                              Record_formats(NotFoundRecord, opts).s)>>,
         exc |-> ""]

\* wrap_exception logging at every verbosity level above 0
wrap_exception_verbose_0(e, opts, log) ==
    [ret |-> IF opts.suspend THEN None
             ELSE Some([Record(FALSE) EXCEPT
                          !.info = append_info(Record(FALSE).info, "Error=" \o e)]),
     log |-> IF opts.verbose > 0 THEN err_warn(log, e) ELSE log,
     raised |-> IF opts.suspend THEN Some(e) ELSE None]

\* wrap_exception(e, op, args), e being the error's message: the Record
\* returned (None when the error is raised again), the warning log
\* afterwards and the error raised (None when the call returns)
wrap_exception(e, opts, log) ==
    [ret |-> IF opts.suspend THEN None
             ELSE Some([Record(FALSE) EXCEPT
                          !.info = append_info(Record(FALSE).info, "Error=" \o e)]),
     log |-> IF opts.verbose > 1 THEN err_warn(log, e) ELSE log,
     raised |-> IF opts.suspend THEN Some(e) ELSE None]

(***************************************************************************)
(* The annotations and Records the scenarios draw from, built as the       *)
(* external transcript model builds them: RegAnno() or RegSpanAnno() with  *)
(* attributes set.                                                         *)
(***************************************************************************)
IG1 ==
    [e5_name |-> "GENE1", e5_dist |-> 1200, e5_strand |-> Some("+"),
     e3_name |-> "GENE2", e3_dist |-> 34, e3_strand |-> None]
IG2 ==
    [e5_name |-> "GENE2", e5_dist |-> 7, e5_strand |-> Some("-"),
     e3_name |-> "GENE3", e3_dist |-> 560, e3_strand |-> Some("-")]

CdsExonSite(e, t) ==
    [RegAnno EXCEPT !.exonic = TRUE, !.exon = Some(e), !.cds = TRUE, !.t = t]
UtrExonSite(e, u, t) ==
    [RegAnno EXCEPT !.exonic = TRUE, !.exon = Some(e), !.UTR = Some(u), !.t = t]
IntronSite(e, t) ==
    [RegAnno EXCEPT !.intronic = TRUE, !.intron_exon1 = Some(e),
                    !.intron_exon2 = Some(e + 1), !.t = t]
IntergenicSite(ig) == [RegAnno EXCEPT !.intergenic = Some(ig)]

\* the i-th donor and acceptor entries <<exind, chrm, spos>> of a span
DonorEntry(i) == <<i, "chr1", 100 * i + 50>>
AcceptorEntry(i) == <<i + 1, "chr1", 100 * i + 80>>
DonorLists == {None} \cup {Some([i \in 1..n |-> DonorEntry(i)]) : n \in 0..MaxSplice}
AcceptorLists == {None} \cup {Some([i \in 1..n |-> AcceptorEntry(i)]) : n \in 0..MaxSplice}

SpliceSites ==
    {[SpliceSite EXCEPT !.chrm = "chr1", !.pos = 150, !.exonno = 2,
                        !.stype = st, !.nextto = nx] :
        st \in {"Donor", "Acceptor"}, nx \in BOOLEAN}

\* single sites with a transcript: a coding-exon site with every splice
\* attachment and one kind of boundary hit, and sites of the other classes
BoundaryHits ==
    {[RegAnno EXCEPT !.cds_beg = Some(100)], [RegAnno EXCEPT !.cds_end = Some(900)],
     [RegAnno EXCEPT !.cds_beg = Some(100), !.cds_end = Some(900)],
     [RegAnno EXCEPT !.tss = Some(40)], [RegAnno EXCEPT !.tes = Some(990)], RegAnno}
RecSites ==
    {[CdsExonSite(2, Some(T1)) EXCEPT !.splice = sp, !.cds_beg = b.cds_beg,
                                       !.cds_end = b.cds_end, !.tss = b.tss, !.tes = b.tes] :
        sp \in {None} \cup {Some(x) : x \in SpliceSites}, b \in BoundaryHits}
    \cup {IntronSite(1, Some(T2)), UtrExonSite(1, "5", Some(T1)), IntergenicSite(IG1)}

\* spans of one transcript
BaseSpan(t) ==
    [RegSpanAnno EXCEPT !.b1 = CdsExonSite(1, Some(t)), !.b2 = IntronSite(3, Some(t)),
                        !.t = Some(t)]
RecSpans ==
    {[BaseSpan(T1) EXCEPT !.splice_donors = d, !.splice_acceptors = a] :
        d \in DonorLists, a \in AcceptorLists}
    \cup {[BaseSpan(t) EXCEPT !.cross_start = cs, !.cross_end = ce, !.splice_both = sb] :
            t \in Transcripts, cs \in {None, Some(TRUE)}, ce \in {None, Some(TRUE)},
            sb \in {None, Some(<<2>>), Some(<<2, 3>>)}}
    \cup {[BaseSpan(T2) EXCEPT !.cross_start = Some(FALSE), !.splice_both = Some(<<>>),
                               !.splice_donors = Some(<<DonorEntry(1)>>)],
          [BaseSpan(T2) EXCEPT !.b1 = IntronSite(3, Some(T2))],
          [BaseSpan(T1) EXCEPT !.b1 = UtrExonSite(1, "5", Some(T1)),
                               !.b2 = UtrExonSite(2, "5", Some(T1)),
                               !.spanning = <<"GENE1">>],
          [RegSpanAnno EXCEPT !.b1 = IntergenicSite(IG1), !.b2 = IntergenicSite(IG1),
                              !.intergenic = Some([anno |-> IG1, spanning |-> <<>>])],
          [RegSpanAnno EXCEPT !.b1 = IntergenicSite(IG1), !.b2 = IntergenicSite(IG2),
                              !.intergenic = Some([anno |-> IG1, spanning |-> <<"GENE2">>])]}

RecRegs == RecSites \cup RecSpans

\* Records as the annotation of a query leaves them
FmtRecords ==
    {[Record(TRUE) EXCEPT !.tname = "NM_1", !.chrm = "chr1", !.gene = "GENE1",
                          !.strand = "+", !.reg = CdsExonSite(2, Some(T1)),
                          !.csqn = <<"Missense">>, !.gnuc_pos = 150, !.gnuc_ref = "A",
                          !.gnuc_alt = "T", !.tnuc_pos = Some(Pos(51, 0)), !.tnuc_ref = "A",
                          !.tnuc_alt = "T", !.taa_ref = "K", !.taa_pos = 17, !.taa_alt = "M",
                          !.vcf_pos = 150, !.vcf_ref = "A", !.vcf_alt = "T"],
     [Record(TRUE) EXCEPT !.tname = "NM_2", !.chrm = "chr2", !.gene = "GENE2",
                          !.strand = "-", !.reg = IntronSite(1, Some(T2)),
                          !.csqn = <<"Intronic", "SpliceDonor">>,
                          !.info = <<"C2=SpliceDonorOfExon1_At_chr2:300">>,
                          !.gnuc_pos = 300, !.gnuc_ref = "G", !.gnuc_alt = "C",
                          !.tnuc_pos = Some(Pos(12, 1)), !.tnuc_ref = "C", !.tnuc_alt = "G"],
     [Record(FALSE) EXCEPT !.tname = "NM_1", !.chrm = "chr1", !.gene = "GENE1",
                           !.strand = "+", !.reg = BaseSpan(T1),
                           !.gnuc_range = "120_450", !.tnuc_range = "21_90+3",
                           !.taa_range = "K7_?"],
     [Record(FALSE) EXCEPT !.info = <<"Error=boom">>]}

Labels == {"", "chr1:g.150A>T"}
Errors == {"boom", "invalid_position_string_abc"}
Args ==
    [oneline : BOOLEAN, gseq : BOOLEAN, custom : BOOLEAN, verbose : 0..MaxVerbose,
     suspend : BOOLEAN]

\* the arguments callers pass: set_splice(action, csqn_action),
\* set_csqn_byreg(action), append_info(app)
SpliceActions == {<<"", "">>, <<"lost", "Deletion">>, <<"", "Synonymous">>}
CsqnActions == {"", "Deletion"}
InfoTokens == {"note=1"}

(***************************************************************************)
(* The states of a scenario's variables while another scenario runs         *)
(***************************************************************************)
NoCall == Raised("not called")
Queries ==
    [beg : (-MinCoord)..MaxCoord, end : (-MinCoord)..MaxCoord,
     tok : [len : 0..MaxRefLen]]
NoQuery == [beg |-> 0, end |-> 0, tok |-> [len |-> 0]]

NoArith(pos) == [inc |-> 0, calls |-> <<>>, pos |-> pos, was |-> pos]

IdlePos ==
    /\ pyver = 3 /\ stage = "idle" /\ p = Pos(0, 0) /\ posstr = <<>> /\ res = NoCall
    /\ arith = NoArith(Pos(0, 0))

IdleReg == q = NoQuery /\ q0 = <<>> /\ warnings = <<>>

\* the last call made on the Record: its name, arguments (gseq is
\* formats()'s args.gseq) and result (expt of set_splice, s of formats());
\* again says that it is a formats() call following a formats() call with
\* the same arguments, which returned s_before
NoCallOnRecord ==
    [op |-> "", action |-> "", csqn_action |-> "", expt |-> FALSE, s |-> "",
     gseq |-> FALSE, again |-> FALSE, s_before |-> ""]

IdleFmt ==
    /\ records0 = <<>> /\ records = <<>> /\ qop = ""
    /\ args = [oneline |-> FALSE, gseq |-> FALSE, custom |-> FALSE, verbose |-> 0,
               suspend |-> FALSE]
    /\ custom_match = FALSE /\ stdout = <<>> /\ formatted = FALSE /\ wrapped = None

IdleAnno == span = RegSpanAnno /\ same = None /\ fmt = None /\ csqn_label = None

IdleRec ==
    rec = Record(FALSE) /\ prev = None /\ last = NoCallOnRecord /\ nops = 0 /\ nfmt = 0


(***************************************************************************)
(* The Pos scenario: a token is parsed, or a Pos is rendered and the       *)
(* rendering parsed back.                                                  *)
(***************************************************************************)
Tokens == UNION {[1..n -> TokChars] : n \in 0..MaxLen}
PosObjs == {Pos(b, t) : b \in (-MaxBase)..MaxBase, t \in (-MaxOff)..MaxOff}

InitPos ==
    /\ IdleReg /\ IdleRec /\ IdleFmt /\ IdleAnno
    /\ pyver \in {2, 3}
    /\ res = NoCall
    /\ \/ stage = "token" /\ posstr \in Tokens /\ p = Pos(0, 0) /\ arith = NoArith(p)
       \/ /\ stage = "pos" /\ p \in PosObjs /\ posstr = <<>>
          /\ \E n \in (-MaxInc)..MaxInc : arith = [NoArith(p) EXCEPT !.inc = n]

\* repr(p)
Repr ==
    /\ stage = "pos"
    /\ posstr' = Pos_repr(p)
    /\ stage' = "rendered"
    /\ UNCHANGED <<pyver, p, res, arith>>

\* parse_pos(posstr)
ParsePos ==
    /\ stage \in {"token", "rendered"}
    /\ res' = parse_pos(posstr, pyver)
    /\ stage' = IF stage = "token" THEN "parsed" ELSE "reparsed"
    /\ UNCHANGED <<pyver, p, posstr, arith>>

\* arith.pos.add(arith.inc)
Add ==
    /\ stage \in {"pos", "moved"} /\ Len(arith.calls) < MaxMoves
    /\ arith' = [arith EXCEPT !.calls = Append(arith.calls, "add"),
                              !.pos = Pos_add(arith.pos, arith.inc),
                              !.was = arith.pos]
    /\ stage' = "moved"
    /\ UNCHANGED <<pyver, p, posstr, res>>

\* arith.pos.subtract(arith.inc)
Subtract ==
    /\ stage \in {"pos", "moved"} /\ Len(arith.calls) < MaxMoves
    /\ arith' = [arith EXCEPT !.calls = Append(arith.calls, "subtract"),
                              !.pos = Pos_subtract(arith.pos, arith.inc),
                              !.was = arith.pos]
    /\ stage' = "moved"
    /\ UNCHANGED <<pyver, p, posstr, res>>

NextPos ==
    (Repr \/ ParsePos \/ Add \/ Subtract)
    /\ UNCHANGED <<regvars, recvars, fmtvars, annovars>>

SpecPos == InitPos /\ [][NextPos]_vars

(***************************************************************************)
(* The token shapes of the position grammar                                *)
(***************************************************************************)
SignedInt(s) == Len(s) >= 2 /\ s[1] \in {"+", "-"} /\ isdigit(Tail(s))
ShapeDigits(s) == isdigit(s)
ShapeBaseOffset(s) ==
    \E k \in 1..Len(s) : isdigit(SubSeq(s, 1, k)) /\ SignedInt(SubSeq(s, k + 1, Len(s)))
ShapeRelative(s) == Len(s) >= 2 /\ s[1] \in {"*", "+", "-"} /\ isdigit(Tail(s))
AcceptedShape(s) == ShapeDigits(s) \/ ShapeBaseOffset(s) \/ ShapeRelative(s)

\* the decimal value of a digit string, with its sign
Signed(sign, digits) == IF sign = "-" THEN -int(digits) ELSE int(digits)

ReturnsPos(r, pos, tpos) ==
    r.exc = "" /\ ~r.tpos_float /\ r.pos = pos /\ r.tpos = tpos

\* C1: parse_pos raises InvalidInputError for every token that is not, as a
\* whole, one of the three accepted shapes; it neither returns a Pos for
\* such a token nor fails with another error.
C1_OtherShapesRaiseInvalidInput ==
    (stage = "parsed" /\ ~AcceptedShape(posstr)) => res.exc = "InvalidInputError"

\* C2 as claimed: every Pos with tpos = 0, whatever its base, is equal to
\* the Pos that parse_pos returns for its rendering.
C2_RoundTripAnyBase ==
    (stage = "reparsed" /\ p.tpos = 0) => ReturnsPos(res, p.pos, p.tpos)

\* C2 as amended: every Pos with tpos = 0 and a base that is not negative is
\* equal to the Pos that parse_pos returns for its rendering.
C2_RoundTripNonNegativeBase ==
    (stage = "reparsed" /\ p.tpos = 0 /\ p.pos >= 0) => ReturnsPos(res, p.pos, p.tpos)

C2_Witness ==
    stage = "reparsed" /\ p.tpos = 0 /\ p.pos >= 10 /\ ReturnsPos(res, p.pos, 0)

\* C3: parse_pos maps each accepted shape to the stated Pos: digits d to
\* (d, 0); digits, sign, digits to (first digits, signed second number);
\* '-' digits to (1, -digits); '+' digits and '*' digits to (-1, +digits).
C3_ShapesMapToStatedPos ==
    stage = "parsed" =>
        /\ ShapeDigits(posstr) => ReturnsPos(res, int(posstr), 0)
        /\ \A k \in 1..Len(posstr) :
             (isdigit(SubSeq(posstr, 1, k)) /\ SignedInt(SubSeq(posstr, k + 1, Len(posstr))))
             => ReturnsPos(res, int(SubSeq(posstr, 1, k)),
                           Signed(posstr[k + 1], SubSeq(posstr, k + 2, Len(posstr))))
        /\ ShapeRelative(posstr) =>
             ReturnsPos(res, IF posstr[1] = "-" THEN 1 ELSE -1,
                        Signed(posstr[1], Tail(posstr)))

(***************************************************************************)
(* The normalize_reg scenario                                              *)
(***************************************************************************)
InitReg ==
    /\ IdlePos /\ IdleRec /\ IdleFmt /\ IdleAnno
    /\ q \in Queries
    /\ q0 = <<>>
    /\ warnings = <<>>

\* normalize_reg(q), once per query
NormalizeReg ==
    /\ q0 = <<>>
    /\ q0' = <<q>>
    /\ q' = normalize_reg(q, warnings).q
    /\ warnings' = normalize_reg(q, warnings).log
    /\ UNCHANGED <<posvars, recvars, fmtvars, annovars>>

NextReg == NormalizeReg

SpecReg == InitReg /\ [][NextReg]_vars

Inside(x, len) == 0 <= x /\ x <= len
Clamped(q_before, q_after) ==
    (IF q_before.beg # q_after.beg THEN 1 ELSE 0)
    + (IF q_before.end # q_after.end THEN 1 ELSE 0)

\* C5: normalize_reg clamps and never fails: afterwards 0 <= beg <= L and
\* 0 <= end <= L, an endpoint that was inside [0, L] is unchanged, and one
\* warning was written per clamped endpoint.
C5_NormalizeRegClamps ==
    q0 # <<>> =>
        LET before == q0[1]
            len == reflen(q.tok)
        IN  /\ Inside(q.beg, len) /\ Inside(q.end, len)
            /\ q.tok = before.tok
            /\ Inside(before.beg, len) => q.beg = before.beg
            /\ Inside(before.end, len) => q.end = before.end
            /\ Len(warnings) = Clamped(before, q)
            /\ Len(warnings) =
                 (IF Inside(before.beg, len) THEN 0 ELSE 1)
                 + (IF Inside(before.end, len) THEN 0 ELSE 1)

\* beg below 0 and end beyond the reference: both clamped, two warnings
C5_Witness ==
    /\ q0 # <<>>
    /\ q0[1].beg < 0 /\ q0[1].end > reflen(q.tok) /\ reflen(q.tok) > 0
    /\ q.beg = 0 /\ q.end = reflen(q.tok)
    /\ Len(warnings) = 2

(***************************************************************************)
(* The Record scenario: a Record is created for a (query, transcript)      *)
(* match, classified by a sequence of set_splice / set_csqn_byreg /        *)
(* append_info calls, then rendered with formats().                        *)
(***************************************************************************)
InitRec ==
    /\ IdlePos /\ IdleReg /\ IdleFmt /\ IdleAnno
    /\ \E v \in BOOLEAN, reg \in RecRegs : rec = [Record(v) EXCEPT !.reg = reg]
    /\ prev = None
    /\ last = NoCallOnRecord
    /\ nops = 0
    /\ nfmt = 0

\* rec.set_splice(action, csqn_action)
SetSplice ==
    /\ nfmt = 0 /\ nops < MaxOps
    /\ \E a \in SpliceActions :
         LET got == set_splice(rec, a[1], a[2])
         IN  /\ rec' = got.r
             /\ last' = [NoCallOnRecord EXCEPT !.op = "set_splice", !.action = a[1],
                                                !.csqn_action = a[2], !.expt = got.expt]
    /\ prev' = Some(rec)
    /\ nops' = nops + 1
    /\ UNCHANGED <<nfmt, posvars, regvars, fmtvars, annovars>>

\* rec.set_csqn_byreg(action)
SetCsqnByReg ==
    /\ nfmt = 0 /\ nops < MaxOps
    /\ \E a \in CsqnActions :
         /\ rec' = set_csqn_byreg(rec, a)
         /\ last' = [NoCallOnRecord EXCEPT !.op = "set_csqn_byreg", !.action = a]
    /\ prev' = Some(rec)
    /\ nops' = nops + 1
    /\ UNCHANGED <<nfmt, posvars, regvars, fmtvars, annovars>>

\* rec.append_info(app)
AppendInfo ==
    /\ nfmt = 0 /\ nops < MaxOps
    /\ \E app \in InfoTokens :
         /\ rec' = [rec EXCEPT !.info = append_info(rec.info, app)]
         /\ last' = [NoCallOnRecord EXCEPT !.op = "append_info", !.action = app]
    /\ prev' = Some(rec)
    /\ nops' = nops + 1
    /\ UNCHANGED <<nfmt, posvars, regvars, fmtvars, annovars>>

\* rec.formats(args)
Formats ==
    /\ nfmt < MaxFormats
    /\ \E gseq \in BOOLEAN :
         LET got == Record_formats(rec, [gseq |-> gseq])
         IN  /\ rec' = got.r
             /\ last' = [NoCallOnRecord EXCEPT
                            !.op = "formats", !.s = got.s, !.gseq = gseq,
                            !.again = (last.op = "formats" /\ last.gseq = gseq),
                            !.s_before = IF last.op = "formats" THEN last.s ELSE ""]
    /\ prev' = Some(rec)
    /\ nfmt' = nfmt + 1
    /\ UNCHANGED <<nops, posvars, regvars, fmtvars, annovars>>

NextRec == SetSplice \/ SetCsqnByReg \/ AppendInfo \/ Formats

SpecRec == InitRec /\ [][NextRec]_vars

\* the tags are all one value
AllSame(tags) == \A i, j \in 1..Len(tags) : tags[i] = tags[j]

\* the tokens info holds ('.' and '' hold none)
TokensOf(info) == IF info \in {<<".">>, <<"">>} THEN <<>> ELSE info

\* the transcript metadata tokens formats() may append
MetaTokens ==
    UNION {{"dbxref=" \o t.gene_dbxref, "aliases=" \o join(",", t.aliases),
            "source=" \o t.source} : t \in Transcripts}

\* C4: after any sequence of set_splice, set_csqn_byreg and append_info
\* calls, formats() on a variant Record makes the first token of info
\* CSQN=Unclassified when no tag was accumulated, CSQN=<tag> when the tags
\* hold one distinct value, and CSQN=Multi:<tags, comma-joined, in insertion
\* order> otherwise, followed by the tokens info held; on a Record that is
\* not a variant the tokens info held stay first and only transcript
\* metadata follows them.
C4_CsqnFinalizedOnRender ==
    last.op = "formats" =>
        LET before == TokensOf(prev[1].info)
            after == TokensOf(rec.info)
            rest == SubSeq(after, Len(before) + 1 + (IF rec.is_var THEN 1 ELSE 0), Len(after))
        IN  /\ rec.csqn = prev[1].csqn
            /\ rec.is_var =>
                 /\ Len(after) >= Len(before) + 1
                 /\ Head(after) =
                      (IF Len(rec.csqn) = 0 THEN "CSQN=Unclassified"
                       ELSE IF AllSame(rec.csqn) THEN "CSQN=" \o rec.csqn[1]
                       ELSE "CSQN=Multi:" \o join(",", rec.csqn))
                 /\ SubSeq(after, 2, Len(before) + 1) = before
            /\ ~rec.is_var =>
                 /\ Len(after) >= Len(before)
                 /\ SubSeq(after, 1, Len(before)) = before
            /\ \A i \in 1..Len(rest) : rest[i] \in MetaTokens

\* a variant Record with two equal tags rendered as CSQN=<tag>, and one
\* with different tags as CSQN=Multi
C4_Witness ==
    /\ last.op = "formats" /\ rec.is_var /\ nops = 2
    /\ Len(rec.csqn) = 2
    /\ \/ rec.csqn[1] = rec.csqn[2] /\ Head(rec.info) = "CSQN=" \o rec.csqn[1]
       \/ /\ rec.csqn[1] # rec.csqn[2]
          /\ Head(rec.info) = "CSQN=Multi:" \o rec.csqn[1] \o "," \o rec.csqn[2]

\* the tags and info tokens the last call added
AddedTags == SubSeq(rec.csqn, Len(prev[1].csqn) + 1, Len(rec.csqn))
AddedInfo ==
    SubSeq(TokensOf(rec.info), Len(TokensOf(prev[1].info)) + 1, Len(TokensOf(rec.info)))

ListOf(opt) == IF opt = None THEN <<>> ELSE opt[1]
Count(xs, x) == Cardinality({i \in 1..Len(xs) : xs[i] = x})
ActionSuffix(action) == IF action = "" THEN "" ELSE "_" \o action
SpliceToken(kind, entry, action) ==
    "C2=" \o kind \o "_splice_site_on_exon_" \o ToString(entry[1]) \o "_at_" \o entry[2]
    \o ":" \o ToString(entry[3]) \o ActionSuffix(action)

SetSpliceOnSpan == last.op = "set_splice" /\ prev[1].reg.cls = "RegSpanAnno"

\* the info part of C10: k + m splice tokens, one per entry, naming its exon
\* index, chromosome and position, donors before acceptors, in entry order
SpliceTokensPerEntry ==
    LET donors == ListOf(prev[1].reg.splice_donors)
        acceptors == ListOf(prev[1].reg.splice_acceptors)
        k == Len(donors)
        m == Len(acceptors)
    IN  /\ Len(AddedInfo) >= k + m
        /\ \A i \in 1..k : AddedInfo[i] = SpliceToken("donor", donors[i], last.action)
        /\ \A j \in 1..m : AddedInfo[k + j] = SpliceToken("acceptor", acceptors[j], last.action)

\* C10 as claimed: set_splice on a span with k donor and m acceptor entries
\* appends one SpliceDonor tag per donor entry and one SpliceAcceptor tag per
\* acceptor entry (k and m tags), and k + m info tokens.
C10_OneTagPerEntry ==
    SetSpliceOnSpan =>
        /\ Count(AddedTags, "SpliceDonor" \o last.csqn_action)
             = Len(ListOf(prev[1].reg.splice_donors))
        /\ Count(AddedTags, "SpliceAcceptor" \o last.csqn_action)
             = Len(ListOf(prev[1].reg.splice_acceptors))
        /\ SpliceTokensPerEntry

\* C10 as amended: one SpliceDonor<csqn_action> tag when there is at least
\* one donor entry (however many), then one SpliceAcceptor<csqn_action> tag
\* when there is at least one acceptor entry, before any other tag; and one
\* info token per entry, donors before acceptors, in entry order.
C10_OneTagPerKind ==
    SetSpliceOnSpan =>
        LET k == Len(ListOf(prev[1].reg.splice_donors))
            m == Len(ListOf(prev[1].reg.splice_acceptors))
            nd == IF k > 0 THEN 1 ELSE 0
            na == IF m > 0 THEN 1 ELSE 0
        IN  /\ Len(AddedTags) >= nd + na
            /\ Count(AddedTags, "SpliceDonor" \o last.csqn_action) = nd
            /\ Count(AddedTags, "SpliceAcceptor" \o last.csqn_action) = na
            /\ k > 0 => AddedTags[1] = "SpliceDonor" \o last.csqn_action
            /\ m > 0 => AddedTags[nd + 1] = "SpliceAcceptor" \o last.csqn_action
            /\ SubSeq(rec.csqn, 1, Len(prev[1].csqn)) = prev[1].csqn
            /\ SpliceTokensPerEntry

\* two donor entries and one acceptor entry: two tags, three info tokens
C10_Witness ==
    /\ SetSpliceOnSpan
    /\ Len(ListOf(prev[1].reg.splice_donors)) = 2
    /\ Len(ListOf(prev[1].reg.splice_acceptors)) = 1
    /\ Len(AddedTags) = 2 /\ Len(AddedInfo) = 3
    /\ last.action # ""

(***************************************************************************)
(* The output scenario: the Records of one query are printed by            *)
(* format_records, and an error met resolving the query is handed to       *)
(* wrap_exception.                                                         *)
(***************************************************************************)
RecordLists == UNION {[1..n -> FmtRecords] : n \in 0..MaxRecords}

InitFmt ==
    /\ IdlePos /\ IdleReg /\ IdleRec /\ IdleAnno
    /\ records0 \in RecordLists
    /\ records = records0
    /\ qop \in Labels
    /\ args \in Args
    /\ custom_match \in BOOLEAN
    /\ stdout = <<>>
    /\ formatted = FALSE
    /\ wrapped = None

\* format_records(records, qop, args, custom_match)
FormatRecords ==
    /\ ~formatted
    /\ LET got == format_records(records, qop, args, custom_match)
       IN  /\ records' = got.records
           /\ stdout' = stdout \o got.out
    /\ formatted' = TRUE
    /\ UNCHANGED <<records0, qop, args, custom_match, wrapped, posvars, regvars, recvars,
                   annovars>>

\* wrap_exception(e, qop, args)
WrapException ==
    /\ wrapped = None
    /\ \E e \in Errors :
         LET got == wrap_exception(e, args, warnings)
         IN  /\ wrapped' = Some([e |-> e, ret |-> got.ret, raised |-> got.raised])
             /\ warnings' = got.log
    /\ UNCHANGED <<records0, records, qop, args, custom_match, stdout, formatted,
                   posvars, q, q0, recvars, annovars>>

NextFmt == FormatRecords \/ WrapException

SpecFmt == InitFmt /\ [][NextFmt]_vars

\* the label column: '*' exactly in custom mode without a custom match
ExpectedLabel == (IF args.custom /\ ~custom_match THEN "*" ELSE "") \o qop
UnderLabel(text) == IF ExpectedLabel = "" THEN text ELSE ExpectedLabel \o "\t" \o text

\* the columns added when genomic-sequence columns are requested, for a
\* Record that has no chromosome and no sequence
NoSeqColumns ==
    IF args.gseq
    THEN "\t.\t.\t[LONG SEQUENCE, see --seqmax]\t[LONG SEQUENCE, see --seqmax]"
    ELSE ""

\* C6: with no Records, format_records prints, in either render mode, one
\* row: a Record whose info is no_valid_transcript_found (no CSQN token) and
\* whose other fields are '.', under the label, which carries '*' exactly
\* when custom mode is active and the result is no custom match.
C6_NotFoundRow ==
    (formatted /\ Len(records0) = 0) =>
        /\ stdout = <<UnderLabel(".\t.\t.\t././.\t.\tno_valid_transcript_found"
                                 \o NoSeqColumns)>>
        /\ records = <<>>

C6_Witness ==
    /\ formatted /\ Len(records0) = 0 /\ args.oneline /\ args.custom /\ ~custom_match
    /\ stdout = <<"*chr1:g.150A>T\t.\t.\t.\t././.\t.\tno_valid_transcript_found">>

\* the rendering of the i-th Record handed over
Rendering(i) == Record_formats(records0[i], args)

\* C7: for n >= 1 Records, the multi-line mode prints n lines, the i-th
\* being the label and the rendering of the i-th Record; the one-line mode
\* prints one line, the label once and the n renderings in the order
\* supplied with the tab-delimited '|||' between them; each Record is
\* rendered once.
C7_OrderAndCountKept ==
    (formatted /\ Len(records0) >= 1) =>
        LET n == Len(records0)
        IN  /\ Len(records) = n
            /\ \A i \in 1..n : records[i] = Rendering(i).r
            /\ ~args.oneline =>
                 /\ Len(stdout) = n
                 /\ \A i \in 1..n : stdout[i] = UnderLabel(Rendering(i).s)
            /\ args.oneline =>
                 stdout = <<UnderLabel(join("\t|||\t", [i \in 1..n |-> Rendering(i).s]))>>

\* two different Records, in each mode
C7_Witness ==
    /\ formatted /\ Len(records0) = 2 /\ records0[1] # records0[2]
    /\ records0[1].is_var /\ records[1].info # records0[1].info
    /\ Len(stdout) = IF args.oneline THEN 1 ELSE 2
    /\ qop # ""

WrapCalled == wrapped # None
ErrorRecord(e) == [Record(FALSE) EXCEPT !.info = <<"Error=" \o e>>]
Logged == \E i \in 1..Len(warnings) : warnings[i] = wrapped[1].e

\* C8 as claimed: every call either logs a warning for the error or returns
\* a Record whose info is Error=<message>; in non-strict mode the Record is
\* returned and nothing is raised; in strict mode the error is raised again
\* only after it was logged.
C8_LoggedOrReturned ==
    WrapCalled =>
        /\ Logged \/ wrapped[1].ret = Some(ErrorRecord(wrapped[1].e))
        /\ ~args.suspend =>
             wrapped[1].ret = Some(ErrorRecord(wrapped[1].e)) /\ wrapped[1].raised = None
        /\ wrapped[1].raised # None => Logged

\* C8 as amended: in non-strict mode the call returns a Record whose info
\* is Error=<message> and raises nothing; in strict mode it raises the
\* original error again and returns no Record; the error is logged exactly
\* when the verbosity level is above 1, in either mode.
C8_ReturnedOrRaisedAgain ==
    WrapCalled =>
        /\ ~args.suspend =>
             wrapped[1].ret = Some(ErrorRecord(wrapped[1].e)) /\ wrapped[1].raised = None
        /\ args.suspend =>
             wrapped[1].ret = None /\ wrapped[1].raised = Some(wrapped[1].e)
        /\ warnings = IF args.verbose > 1 THEN <<wrapped[1].e>> ELSE <<>>

\* strict mode at a low verbosity: raised again, nothing logged
C8_Witness ==
    /\ WrapCalled /\ args.suspend /\ args.verbose = 1
    /\ wrapped[1].raised # None /\ warnings = <<>>

(***************************************************************************)
(* The description scenario: a span is built over two single-site          *)
(* annotations, which are then compared and the span rendered.  RegAnno()  *)
(* starts without a transcript and callers attach one, so each genic site  *)
(* is taken both with and without it.                                      *)
(***************************************************************************)
MaybeT == {None} \cup {Some(t) : t \in Transcripts}

AnnoSites ==
    {CdsExonSite(e, t) : e \in 1..MaxExon, t \in MaybeT}
    \cup {UtrExonSite(1, "5", t) : t \in MaybeT}
    \cup {IntronSite(1, t) : t \in MaybeT}
    \cup {IntergenicSite(IG1), IntergenicSite(IG2)}

Spannings == {<<>>, <<"GENE2">>, <<"G1", "G2", "G3", "G4", "G5", "G6">>}

AnnoSpans ==
    {[RegSpanAnno EXCEPT !.b1 = b1, !.b2 = b2, !.spanning = sp] :
        b1 \in AnnoSites, b2 \in AnnoSites, sp \in Spannings}
    \cup {[RegSpanAnno EXCEPT !.b1 = IntergenicSite(IG1), !.b2 = IntergenicSite(ig),
                              !.intergenic = Some([anno |-> IG1, spanning |-> sp])] :
            ig \in {IG1, IG2}, sp \in Spannings}

\* spans of one transcript with donor, acceptor and intergenic attachments
\* in every combination
CsqnSites ==
    {IntronSite(1, Some(T1)), IntronSite(2, Some(T1)),
     UtrExonSite(1, "5", Some(T1)), UtrExonSite(1, "3", Some(T1)),
     [IntronSite(1, Some(T1)) EXCEPT !.UTR = Some("5")],
     CdsExonSite(1, Some(T1)), IntergenicSite(IG1)}

CsqnSpans ==
    {[RegSpanAnno EXCEPT !.b1 = b1, !.b2 = b2, !.splice_donors = d,
                         !.splice_acceptors = a, !.intergenic = ig] :
        b1 \in CsqnSites, b2 \in CsqnSites, d \in DonorLists, a \in AcceptorLists,
        ig \in {None, Some([anno |-> IG1, spanning |-> <<>>]),
                Some([anno |-> IG1, spanning |-> <<"GENE2">>])}}

InitAnno ==
    /\ IdlePos /\ IdleReg /\ IdleRec /\ IdleFmt
    /\ span \in AnnoSpans \cup CsqnSpans
    /\ same = None
    /\ fmt = None
    /\ csqn_label = None

\* same_region(span.b1, span.b2)
SameRegion ==
    /\ same = None
    /\ same' = Some(same_region(span.b1, span.b2))
    /\ UNCHANGED <<span, fmt, csqn_label, posvars, regvars, recvars, fmtvars>>

\* span.format()
FormatSpan ==
    /\ fmt = None
    /\ fmt' = Some(RegSpanAnno_format(span))
    /\ UNCHANGED <<span, same, csqn_label, posvars, regvars, recvars, fmtvars>>

\* span.csqn()
SpanCsqn ==
    /\ csqn_label = None
    /\ csqn_label' = Some(RegSpanAnno_csqn(span))
    /\ UNCHANGED <<span, same, fmt, posvars, regvars, recvars, fmtvars>>

NextAnno == SameRegion \/ FormatSpan \/ SpanCsqn

SpecAnno == InitAnno /\ [][NextAnno]_vars

HasT(r) == r.t # None
SameFormat == RegAnno_format(span.b1) = RegAnno_format(span.b2)
ExactlyOneT == HasT(span.b1) # HasT(span.b2)
BothSameT == HasT(span.b1) /\ HasT(span.b2) /\ span.b1.t = span.b2.t
Formatted == fmt # None /\ span.intergenic = None
RendersInside == fmt[1] = Text("inside_[" \o RegAnno_format0(span.b1, FALSE).s \o "]")

\* the descriptions a boundary can have, with and without the gene name
Descriptions == {RegAnno_format0(r, w).s : r \in AnnoSites \cup CsqnSites, w \in BOOLEAN}
RendersFromTo ==
    /\ fmt[1].exc = ""
    /\ \E d1 \in Descriptions, d2 \in Descriptions :
         fmt[1].s = "from_[" \o d1 \o "]_to_[" \o d2 \o "]" \o SpanningSuffix(span.spanning)

\* C9 as claimed: same_region is true exactly when the two formats are
\* equal and either neither annotation carries a transcript or both carry
\* the same one; when exactly one carries a transcript it is false and the
\* span renders as from_[...]_to_[...], not inside_[...].
C9_SameRegionIffBothOrNeither ==
    /\ same # None =>
         (same[1] <=> SameFormat /\ ((~HasT(span.b1) /\ ~HasT(span.b2)) \/ BothSameT))
    /\ (same # None /\ ExactlyOneT) => ~same[1]
    /\ (Formatted /\ ExactlyOneT) => RendersFromTo

\* C9 as amended: same_region is true exactly when the two formats are
\* equal and at least one annotation carries no transcript or both carry the
\* same one; a span with no intergenic annotation renders as inside_[...]
\* exactly when that holds, and otherwise renders as from_[...]_to_[...] or
\* raises AttributeError, the latter only when a boundary carries no
\* transcript.
C9_SameRegionUnlessDifferentT ==
    LET expected == SameFormat /\ (~HasT(span.b1) \/ ~HasT(span.b2) \/ BothSameT)
    IN  /\ same # None => (same[1] <=> expected)
        /\ Formatted =>
             /\ RendersInside <=> expected
             /\ ~expected =>
                  \/ RendersFromTo
                  \/ /\ fmt[1] = TextRaised("AttributeError")
                     /\ ~HasT(span.b1) \/ ~HasT(span.b2)

\* equal formats, one transcript: the same region, rendered inside_[...]
C9_Witness ==
    /\ same = Some(TRUE) /\ ExactlyOneT /\ SameFormat
    /\ fmt = Some(Text("inside_[cds_in_exon_1]")) /\ span.intergenic = None

IsSet(opt) == opt = Some(TRUE)
OneIf(b) == IF b THEN 1 ELSE 0
WholeExons(reg) == reg.splice_both # None /\ Len(reg.splice_both[1]) > 0
WholeExonToken(reg, action) ==
    "whole_exon_[" \o join(",", [i \in 1..Len(reg.splice_both[1]) |->
                                    ToString(reg.splice_both[1][i])])
    \o "]" \o ActionSuffix(action)

\* C11: set_splice on a span labels the CDS boundary by strand: cross_start
\* appends CdsStart<action> on '+' and CdsStop<action> otherwise, cross_end
\* appends CdsStop<action> on '+' and CdsStart<action> otherwise, so with both
\* set one CdsStart and one CdsStop are appended on either strand; whole
\* exons (splice_both) give an info token and no tag; the call returns true
\* in each of these cases.  <action> is the consequence suffix, the
\* csqn_action argument.
C11_CdsLabelsInvertWithStrand ==
    (SetSpliceOnSpan /\ prev[1].reg.t # None) =>
        LET reg == prev[1].reg
            plus == reg.t[1].strand = "+"
            cs == IsSet(reg.cross_start)
            ce == IsSet(reg.cross_end)
            k == Len(ListOf(reg.splice_donors))
            m == Len(ListOf(reg.splice_acceptors))
        IN  /\ Count(AddedTags, "CdsStart" \o last.csqn_action)
                 = OneIf(cs /\ plus) + OneIf(ce /\ ~plus)
            /\ Count(AddedTags, "CdsStop" \o last.csqn_action)
                 = OneIf(cs /\ ~plus) + OneIf(ce /\ plus)
            /\ Len(AddedTags) = OneIf(k > 0) + OneIf(m > 0) + OneIf(cs) + OneIf(ce)
            /\ WholeExons(reg) =>
                 Count(AddedInfo, WholeExonToken(reg, last.action)) = 1
            /\ (cs \/ ce \/ WholeExons(reg)) => last.expt

\* a span over the whole coding region of a '-' transcript
C11_Witness ==
    /\ SetSpliceOnSpan /\ prev[1].reg.t = Some(T2)
    /\ IsSet(prev[1].reg.cross_start) /\ IsSet(prev[1].reg.cross_end)
    /\ WholeExons(prev[1].reg)
    /\ AddedTags = <<"CdsStopDeletion", "CdsStartDeletion">>
    /\ last.expt

SetSpliceOnSite == last.op = "set_splice" /\ prev[1].reg.cls = "RegAnno"
OnSpliceSite(reg) == reg.splice # None /\ ~reg.splice[1].nextto
NextToSpliceSite(reg) == reg.splice # None /\ reg.splice[1].nextto
NotSynonymous == last.csqn_action # "Synonymous"

\* what C12 says of the tags and the info: a Splice<Donor|Acceptor><action>
\* tag only for a site on a splice site with an action other than
\* Synonymous, a CdsStart / CdsStop tag for every CDS start / end hit, no
\* other tag, and an info token for an attached splice site, next_to or not
SiteTagsAsStated ==
    LET reg == prev[1].reg
    IN  /\ \A st \in {"Donor", "Acceptor"} :
             Count(AddedTags, "Splice" \o st \o last.csqn_action)
               = OneIf(OnSpliceSite(reg) /\ NotSynonymous /\ reg.splice[1].stype = st)
        /\ Count(AddedTags, "CdsStart" \o last.csqn_action) = OneIf(reg.cds_beg # None)
        /\ Count(AddedTags, "CdsStop" \o last.csqn_action) = OneIf(reg.cds_end # None)
        /\ Len(AddedTags) = OneIf(OnSpliceSite(reg) /\ NotSynonymous)
                            + OneIf(reg.cds_beg # None) + OneIf(reg.cds_end # None)
        /\ reg.splice # None =>
             Count(AddedInfo, "C2=" \o SpliceSite_format(reg.splice[1])) = 1

\* C12 as claimed: set_splice on a single site returns true exactly when
\* the action is not Synonymous and the site lies on a splice site or
\* coincides with the CDS start or the CDS end; the tags are as stated; a
\* site only next to a splice site gets an info token, no tag and no true
\* result.  The action is the consequence suffix, the csqn_action argument.
C12_TrueIffSpliceOrCdsHit ==
    SetSpliceOnSite =>
        LET reg == prev[1].reg
        IN  /\ last.expt <=>
                 (NotSynonymous
                  /\ (OnSpliceSite(reg) \/ reg.cds_beg # None \/ reg.cds_end # None))
            /\ SiteTagsAsStated
            /\ (NextToSpliceSite(reg) /\ reg.cds_beg = None /\ reg.cds_end = None) =>
                 (~last.expt /\ AddedTags = <<>>)

\* C12 as amended: the call returns true exactly when the action is not
\* Synonymous and the site lies on a splice site, coincides with the CDS
\* start or the CDS end, or has a transcription start (tss) or end (tes)
\* attached; the tags are as stated; a site only next to a splice site, with
\* no CDS or transcription boundary, gets an info token, no tag and no true
\* result.
C12_TrueIffAnyBoundaryHit ==
    SetSpliceOnSite =>
        LET reg == prev[1].reg
            boundary == reg.cds_beg # None \/ reg.cds_end # None
                        \/ reg.tss # None \/ reg.tes # None
        IN  /\ last.expt <=> (NotSynonymous /\ (OnSpliceSite(reg) \/ boundary))
            /\ SiteTagsAsStated
            /\ (NextToSpliceSite(reg) /\ ~boundary) => (~last.expt /\ AddedTags = <<>>)

\* a site next to a splice site and at the transcription start: true, no tag
C12_Witness ==
    /\ SetSpliceOnSite /\ NotSynonymous
    /\ NextToSpliceSite(prev[1].reg) /\ prev[1].reg.tss # None
    /\ prev[1].reg.cds_beg = None /\ prev[1].reg.cds_end = None
    /\ last.expt /\ AddedTags = <<>> /\ Len(AddedInfo) = 2

\* the facts of a span the precedence of csqn() ranks
NoGenesSpanned == span.intergenic # None /\ Len(span.intergenic[1].spanning) = 0
HasDonor == span.splice_donors # None /\ Len(span.splice_donors[1]) > 0
HasAcceptor == span.splice_acceptors # None /\ Len(span.splice_acceptors[1]) > 0
SameIntron ==
    /\ span.b1.intronic /\ span.b2.intronic
    /\ span.b1.intron_exon1 = span.b2.intron_exon1
    /\ span.b1.intron_exon2 = span.b2.intron_exon2
SameUTR == span.b1.UTR # None /\ span.b1.UTR = span.b2.UTR

\* C13: RegSpanAnno.csqn() returns the first label that applies, in the
\* order Intergenic (intergenic attached, no genes spanned), SpliceDonor (a
\* donor entry), SpliceAcceptor (an acceptor entry), Intronic (both
\* boundaries in one intron), <side>-UTR (both boundaries in one UTR side),
\* else Unclassified: always one of these labels.
C13_CsqnPrecedence ==
    csqn_label # None =>
        /\ csqn_label[1] \in {"Intergenic", "SpliceDonor", "SpliceAcceptor", "Intronic",
                         "5-UTR", "3-UTR", "Unclassified"}
        /\ NoGenesSpanned => csqn_label[1] = "Intergenic"
        /\ (~NoGenesSpanned /\ HasDonor) => csqn_label[1] = "SpliceDonor"
        /\ (~NoGenesSpanned /\ ~HasDonor /\ HasAcceptor) => csqn_label[1] = "SpliceAcceptor"
        /\ (~NoGenesSpanned /\ ~HasDonor /\ ~HasAcceptor /\ SameIntron)
             => csqn_label[1] = "Intronic"
        /\ (~NoGenesSpanned /\ ~HasDonor /\ ~HasAcceptor /\ ~SameIntron /\ SameUTR)
             => csqn_label[1] = span.b1.UTR[1] \o "-UTR"
        /\ (~NoGenesSpanned /\ ~HasDonor /\ ~HasAcceptor /\ ~SameIntron /\ ~SameUTR)
             => csqn_label[1] = "Unclassified"

\* both boundaries in one intron of the 5' UTR: Intronic wins over 5-UTR
C13_Witness ==
    /\ csqn_label = Some("Intronic") /\ SameIntron /\ SameUTR
    /\ ~NoGenesSpanned /\ span.intergenic # None /\ ~HasDonor /\ span.splice_donors # None

FormatsAgain == last.op = "formats" /\ last.again

\* C14: formats() called twice in a row on a Record, with the same
\* arguments, returns the same string both times and leaves the info the
\* first call left; so the info holds one CSQN token on a variant Record,
\* none otherwise, and each transcript metadata token at most once.
C14_FormatsRepeatable ==
    FormatsAgain =>
        /\ last.s = last.s_before
        /\ rec.info = prev[1].info
        /\ Count(rec.info, CsqnToken(rec.csqn)) = OneIf(rec.is_var)
        /\ \A tok \in MetaTokens : Count(rec.info, tok) <= 1

\* the distinct values of a list, in order of first insertion
RECURSIVE DistinctInOrder(_)
DistinctInOrder(xs) ==
    IF Len(xs) = 0 THEN <<>>
    ELSE LET front == DistinctInOrder(SubSeq(xs, 1, Len(xs) - 1))
         IN  IF Count(front, xs[Len(xs)]) > 0 THEN front ELSE Append(front, xs[Len(xs)])

\* C15: after any sequence of set_splice and set_csqn_byreg calls on a
\* variant Record, a CSQN=Multi: token in the rendered info lists each
\* distinct accumulated tag once, in order of first insertion.
C15_MultiListsEachTagOnce ==
    (last.op = "formats" /\ nfmt = 1 /\ rec.is_var /\ ~AllSame(rec.csqn)) =>
        Head(rec.info) = "CSQN=Multi:" \o join(",", DistinctInOrder(rec.csqn))

\* add(n) then subtract(n), or subtract(n) then add(n), made on a copy of p
RoundTrip == arith.calls \in {<<"add", "subtract">>, <<"subtract", "add">>}

\* one call keeps the coordinate that is not active: the base when the
\* offset is not 0, the offset when it is 0
InactiveKept ==
    Len(arith.calls) >= 1 =>
        /\ arith.was.tpos # 0 => arith.pos.pos = arith.was.pos
        /\ arith.was.tpos = 0 => arith.pos.tpos = arith.was.tpos

\* C16 as claimed: for every Pos p and integer n, add(n) followed by
\* subtract(n), and subtract(n) followed by add(n), restore p's base and
\* offset; a call on a Pos with an offset other than 0 keeps its base and a
\* call on a Pos with offset 0 keeps its offset.
C16_AddSubtractInvertible ==
    /\ RoundTrip => Pos_eq(arith.pos, p)
    /\ InactiveKept

\* C16 as amended: the two calls restore p when p's offset is 0 or the
\* first call leaves an offset other than 0; when the first call brings an
\* offset other than 0 to 0 the second call moves the base and the result is
\* base + offset of p with offset 0.  Each single call keeps the coordinate
\* that is not active.
C16_InvertibleUnlessOffsetCancelled ==
    /\ RoundTrip =>
         IF p.tpos # 0 /\ arith.was.tpos = 0
         THEN Pos_eq(arith.pos, Pos(p.pos + p.tpos, 0))
         ELSE Pos_eq(arith.pos, p)
    /\ InactiveKept

\* 5+2: add(-2) gives 5, subtract(-2) then gives 7
C16_Witness ==
    /\ arith.calls = <<"add", "subtract">> /\ arith.inc = -2
    /\ p = Pos(5, 2) /\ arith.was = Pos(5, 0) /\ arith.pos = Pos(7, 0)

====
